---- MODULE Spec2Model ----
(***************************************************************************)
(* Model of sg1_utility.upload: the TFOP SG1 upload run.  One run is a     *)
(* strictly sequential pipeline (argument checks, login, directory         *)
(* listing, filename classification, consistency checks, canonical table   *)
(* selection, listing, completeness check, confirmation, submission entry  *)
(* building, submit).  Strings the code inspects character by character    *)
(* (filenames, answers, numeric arguments) are sequences of one-character  *)
(* strings; labels the code only compares for equality are TLA+ strings.   *)
(***************************************************************************)
EXTENDS Integers, Sequences, FiniteSets, TLC

(***************************************************************************)
(* Bounds of the explored inputs.                                          *)
(***************************************************************************)
MaxEdits == 1

(***************************************************************************)
(* Characters and Python str primitives.                                   *)
(***************************************************************************)
\* the characters of the explored strings, in code point order
AsciiOrder == <<" ","+","-",".","0","1","2","3","4","5","6","7","8","9","A","B","C","D","E","F","G","H","I","J","K","L","M","N","O","P","Q","R","S","T","U","V","W","X","Y","Z","_","a","b","c","d","e","f","g","h","i","j","k","l","m","n","o","p","q","r","s","t","u","v","w","x","y","z">>

Chars == {AsciiOrder[i] : i \in 1..Len(AsciiOrder)}

Ord == [c \in Chars |-> CHOOSE i \in 1..Len(AsciiOrder) : AsciiOrder[i] = c]

Digit == {"0","1","2","3","4","5","6","7","8","9"}

Upper == {"A","B","C","D","E","F","G","H","I","J","K","L","M","N","O","P","Q","R","S","T","U","V","W","X","Y","Z"}

Lower == {"a","b","c","d","e","f","g","h","i","j","k","l","m","n","o","p","q","r","s","t","u","v","w","x","y","z"}

\* [A-Za-z0-9\-]
ObsClass == Upper \cup Lower \cup Digit \cup {"-"}

\* [A-Za-z0-9\-\+]
FltClass == ObsClass \cup {"+"}

\* Python str < str: lexicographic by code point, a proper prefix is smaller
RECURSIVE StrLess(_, _)
StrLess(a, b) ==
  IF b = <<>> THEN FALSE
  ELSE IF a = <<>> THEN TRUE
  ELSE IF a[1] # b[1] THEN Ord[a[1]] < Ord[b[1]]
  ELSE StrLess(Tail(a), Tail(b))

\* sorted(...) of distinct strings
RECURSIVE SortedStrs(_)
SortedStrs(S) ==
  IF S = {} THEN <<>>
  ELSE LET m == CHOOSE x \in S : \A y \in S \ {x} : StrLess(x, y)
       IN <<m>> \o SortedStrs(S \ {m})

Range(s) == {s[i] : i \in 1..Len(s)}

\* s[i-1:j-1] of Python, with 1-based inclusive bounds
Slice(s, i, j) == IF j < i THEN <<>> ELSE SubSeq(s, i, j)

\* str.endswith
EndsWith(s, suf) ==
  /\ Len(s) >= Len(suf)
  /\ SubSeq(s, Len(s) - Len(suf) + 1, Len(s)) = suf

\* sub in s
Contains(s, sub) ==
  \E i \in 1..(Len(s) - Len(sub) + 1) : SubSeq(s, i, i + Len(sub) - 1) = sub

\* str.strip() for the blank of the explored strings
RECURSIVE LStrip(_)
LStrip(s) == IF s # <<>> /\ s[1] = " " THEN LStrip(Tail(s)) ELSE s

RECURSIVE RStrip(_)
RStrip(s) ==
  IF s # <<>> /\ s[Len(s)] = " " THEN RStrip(SubSeq(s, 1, Len(s) - 1)) ELSE s

Strip(s) == RStrip(LStrip(s))

\* str.lower()
LowerChar(c) ==
  IF c \in Upper THEN AsciiOrder[Ord[c] + (Ord["a"] - Ord["A"])] ELSE c

ToLower(s) == [i \in 1..Len(s) |-> LowerChar(s[i])]

\* str.isdigit(): non-empty and all digits
IsDigitStr(s) == s # <<>> /\ \A i \in 1..Len(s) : s[i] \in Digit

\* int() of a digit string
RECURSIVE ToInt(_)
ToInt(s) ==
  IF s = <<>> THEN 0
  ELSE 10 * ToInt(SubSeq(s, 1, Len(s) - 1)) + (Ord[s[Len(s)]] - Ord["0"])

\* index after the longest run of characters of class C that starts at i
RECURSIVE RunEnd(_, _, _)
RunEnd(s, i, C) ==
  IF i <= Len(s) /\ s[i] \in C THEN RunEnd(s, i + 1, C) ELSE i

At(s, i, c) == i <= Len(s) /\ s[i] = c

\* float(s) succeeds, for s over the explored characters: an optional sign,
\* digits with at most one point and at least one digit
IsFloat(s0) ==
  LET s == Strip(s0)
      b == IF s # <<>> /\ s[1] \in {"+", "-"} THEN Tail(s) ELSE s
      i == RunEnd(b, 1, Digit)
      j == IF At(b, i, ".") THEN RunEnd(b, i + 1, Digit) ELSE i
  IN /\ j = Len(b) + 1
     /\ \E k \in 1..Len(b) : b[k] \in Digit

(***************************************************************************)
(* Filename grammar and descriptor table.                                  *)
(***************************************************************************)
T_NEBcheck == <<"m","e","a","s","u","r","e","m","e","n","t","s","_","N","E","B","c","h","e","c","k",".","z","i","p">>
T_NEBtable == <<"m","e","a","s","u","r","e","m","e","n","t","s","_","N","E","B","-","t","a","b","l","e",".","t","x","t">>
T_dmagRMS == <<"m","e","a","s","u","r","e","m","e","n","t","s","_","d","m","a","g","R","M","S","-","p","l","o","t",".","p","n","g">>
T_tbl == <<"m","e","a","s","u","r","e","m","e","n","t","s",".","t","b","l">>
T_plotcfg == <<"m","e","a","s","u","r","e","m","e","n","t","s",".","p","l","o","t","c","f","g">>
T_radec == <<"m","e","a","s","u","r","e","m","e","n","t","s",".","r","a","d","e","c">>
T_lightcurve == <<"l","i","g","h","t","c","u","r","v","e",".","p","n","g">>
T_compstar == <<"c","o","m","p","s","t","a","r","-","l","i","g","h","t","c","u","r","v","e","s",".","p","n","g">>
T_field == <<"f","i","e","l","d",".","p","n","g">>
T_fieldzoom == <<"f","i","e","l","d","-","z","o","o","m",".","p","n","g">>
T_seeing == <<"s","e","e","i","n","g","-","p","r","o","f","i","l","e",".","p","n","g">>
T_notes == <<"n","o","t","e","s",".","t","x","t">>
T_WCS == <<"W","C","S",".","f","i","t","s">>
T_subset == <<"s","u","b","s","e","t",".","c","s","v">>

MeasTable == "AstroImageJ Photometry Measurement Table"
NotesText == "Notes and Results Text"
PlateSolved == "Plate-Solved Image"

\* the ordered pattern -> descriptor table; every pattern is ^literal$
allowed_specs == <<
  <<T_NEBcheck, "NEB Depth Plots">>,
  <<T_NEBtable, "NEB Table">>,
  <<T_dmagRMS, "Dmag vs. RMS Plot">>,
  <<T_tbl, MeasTable>>,
  <<T_plotcfg, "AstroImageJ Plot Configuration File">>,
  <<T_radec, "AstroImageJ Photometry Aperture File">>,
  <<T_lightcurve, "Light Curve Plot">>,
  <<T_compstar, "Compstar Light Curve Plots">>,
  <<T_field, "Field Image with Apertures">>,
  <<T_fieldzoom, "Zoomed-in FOV">>,
  <<T_seeing, "Seeing Profile">>,
  <<T_notes, NotesText>>,
  <<T_WCS, PlateSolved>>,
  <<T_subset, "Photometry Table Subset for Joint Fitting">> >>

Descriptors == {allowed_specs[i][2] : i \in 1..Len(allowed_specs)}

required_keys_per_filter == <<
  MeasTable,
  "AstroImageJ Plot Configuration File",
  "AstroImageJ Photometry Aperture File",
  "Compstar Light Curve Plots",
  "Field Image with Apertures",
  "Zoomed-in FOV",
  PlateSolved,
  "Seeing Profile" >>

required_global == <<NotesText>>

\* the code builds a list from a set; only membership is used afterwards
optional_keys ==
  {v \in Descriptors : v \notin Range(required_keys_per_filter)
                       /\ v \notin Range(required_global)}

order_types == <<
  MeasTable,
  "AstroImageJ Plot Configuration File",
  "AstroImageJ Photometry Aperture File",
  "Light Curve Plot",
  "Compstar Light Curve Plots",
  "Field Image with Apertures",
  "Zoomed-in FOV",
  "Seeing Profile",
  NotesText,
  PlateSolved,
  "NEB Table",
  "NEB Depth Plots",
  "Dmag vs. RMS Plot",
  "Photometry Table Subset for Joint Fitting" >>

NoMatch == [ok |-> FALSE, tgt |-> <<>>, pp |-> <<>>, ymd |-> <<>>,
            obs |-> <<>>, flt |-> <<>>, px |-> <<>>, tail |-> <<>>]

\* base.match(fn): TIC\d+ - \d{2} _ \d{8} _ obs _ flt (_ \d+ px)? _ tail.
\* No class contains the character that must follow it, so every run is
\* the longest one; the optional pixel-size group is tried first.
BaseMatch(fn) ==
  LET a == RunEnd(fn, 4, Digit)          \* after TIC\d+
      b == a + 3                         \* after -\d{2}
      c == b + 9                         \* after _\d{8}
      d == RunEnd(fn, c + 1, ObsClass)   \* after _obs
      e == RunEnd(fn, d + 1, FltClass)   \* after _flt
      f == RunEnd(fn, e + 1, Digit)      \* after _\d+
      head == /\ Len(fn) >= 3 /\ SubSeq(fn, 1, 3) = <<"T","I","C">>
              /\ a > 4
              /\ At(fn, a, "-")
              /\ RunEnd(fn, a + 1, Digit) >= b /\ At(fn, b, "_")
              /\ RunEnd(fn, b + 1, Digit) = c /\ At(fn, c, "_")
              /\ d > c + 1 /\ At(fn, d, "_")
              /\ e > d + 1 /\ At(fn, e, "_")
      withPx == /\ f > e + 1
                /\ At(fn, f, "p") /\ At(fn, f + 1, "x") /\ At(fn, f + 2, "_")
                /\ Len(fn) >= f + 3
      common == [ok |-> TRUE, tgt |-> SubSeq(fn, 1, a - 1),
                 pp |-> SubSeq(fn, a + 1, a + 2),
                 ymd |-> SubSeq(fn, b + 1, b + 8),
                 obs |-> SubSeq(fn, c + 1, d - 1),
                 flt |-> SubSeq(fn, d + 1, e - 1),
                 px |-> <<>>, tail |-> <<>>]
  IN IF ~head THEN NoMatch
     ELSE IF withPx
       THEN [common EXCEPT !.px = SubSeq(fn, e + 1, f - 1),
                           !.tail = SubSeq(fn, f + 3, Len(fn))]
     ELSE IF Len(fn) >= e + 1
       THEN [common EXCEPT !.tail = SubSeq(fn, e + 1, Len(fn))]
     ELSE NoMatch

\* for pat,d in allowed_specs.items(): if re.fullmatch(pat,tail): desc=d; break
RECURSIVE DescFrom(_, _)
DescFrom(tail, i) ==
  IF i > Len(allowed_specs) THEN ""
  ELSE IF allowed_specs[i][1] = tail THEN allowed_specs[i][2]
  ELSE DescFrom(tail, i + 1)

DescOf(tail) == DescFrom(tail, 1)

\* ClassifyOne without the target-prefix comparison
ClassifyOne_NoPrefixCheck(fn, prefix) ==
  LET m == BaseMatch(fn)
      desc == DescOf(m.tail)
  IN IF ~m.ok THEN [rec |-> FALSE, fn |-> fn, why |-> "Name does not match pattern"]
     ELSE IF desc = ""
       THEN [rec |-> FALSE, fn |-> fn, why |-> "Unrecognized filetype token"]
     ELSE [rec |-> TRUE, fn |-> fn, desc |-> desc, ymd |-> m.ymd,
           obs |-> m.obs, flt |-> m.flt, px |-> m.px]

\* one iteration of the classification loop for file fn
ClassifyOne(fn, prefix) ==
  LET m == BaseMatch(fn)
      desc == DescOf(m.tail)
  IN IF ~m.ok THEN [rec |-> FALSE, fn |-> fn, why |-> "Name does not match pattern"]
     ELSE IF m.tgt \o <<"-">> \o m.pp # prefix
       THEN [rec |-> FALSE, fn |-> fn, why |-> "TIC/planet mismatch"]
     ELSE IF desc = ""
       THEN [rec |-> FALSE, fn |-> fn, why |-> "Unrecognized filetype token"]
     ELSE [rec |-> TRUE, fn |-> fn, desc |-> desc, ymd |-> m.ymd,
           obs |-> m.obs, flt |-> m.flt, px |-> m.px]

(***************************************************************************)
(* Numbers read from measurement tables.  Source_Radius values are whole   *)
(* pixels (even ones in the explored tables, so that the mean of the two   *)
(* middle values is whole); NaN is float('nan').  JD_UTC values are kept   *)
(* in seconds (JD * 86400) and exposures in seconds, which makes the       *)
(* duration arithmetic exact.                                              *)
(***************************************************************************)
NaN == 2000000001

\* med=-1e9 : the ranking value of an unreadable table
Sentinel == -1000000000

IsNaN(x) == x = NaN

\* float == and < : every comparison with NaN is false
FloatEq(x, y) == ~IsNaN(x) /\ ~IsNaN(y) /\ x = y

FloatLess(x, y) == ~IsNaN(x) /\ ~IsNaN(y) /\ x < y

\* unary minus of a float
FloatNeg(x) == IF IsNaN(x) THEN NaN ELSE -x

NotNaN(col) == SelectSeq(col, LAMBDA v : ~IsNaN(v))

RECURSIVE SortedInts(_)
SortedInts(s) ==
  IF s = <<>> THEN <<>>
  ELSE LET m == CHOOSE i \in 1..Len(s) : \A j \in 1..Len(s) : s[i] <= s[j]
       IN <<s[m]>> \o SortedInts([k \in 1..(Len(s) - 1) |-> IF k < m THEN s[k] ELSE s[k + 1]])

\* np.nanmedian: NaN of an empty or all-NaN column (with a warning)
NanMedian(col) ==
  LET v == SortedInts(NotNaN(col))
      n == Len(v)
  IN IF n = 0 THEN NaN
     ELSE IF n % 2 = 1 THEN v[(n + 1) \div 2]
     ELSE (v[n \div 2] + v[n \div 2 + 1]) \div 2

\* np.nanmax(sr)-np.nanmin(sr) raises ValueError on a zero-size column
SpanRaises(col) == col = <<>>

\* np.nanmax(sr)-np.nanmin(sr): NaN of an all-NaN column
NanSpan(col) ==
  LET v == SortedInts(NotNaN(col))
  IN IF v = <<>> THEN NaN ELSE v[Len(v)] - v[1]

\* round(x) of num/den (den > 0, num >= 0): ties go to the even integer
RoundHalfEven(num, den) ==
  LET q == num \div den
      r == num % den
  IN IF 2 * r < den THEN q
     ELSE IF 2 * r > den THEN q + 1
     ELSE IF q % 2 = 0 THEN q ELSE q + 1

(***************************************************************************)
(* Canonical measurement-table ranking.                                    *)
(***************************************************************************)
\* the statistics tuple (fn, med, var, px) of one candidate
StatOf(x, t) ==
  IF ~t.readable THEN [fn |-> x.fn, med |-> Sentinel, var |-> 1, px |-> x.px]
  ELSE IF "Source_Radius" \notin DOMAIN t.cols
    THEN [fn |-> x.fn, med |-> Sentinel, var |-> 1, px |-> x.px]
  ELSE LET vspan == NanSpan(t.cols.Source_Radius)
       IN [fn |-> x.fn, med |-> NanMedian(t.cols.Source_Radius),
           var |-> IF IsNaN(vspan) \/ vspan > 0 THEN 1 ELSE 0, px |-> x.px]

\* (-int(z[3]) if z[3].isdigit() else 0)
PxKey(px) == IF IsDigitStr(px) THEN -ToInt(px) ELSE 0

\* key(x) < key(y) for key = (-med, var, pxkey, fn), as Python compares
\* tuples: the first position where the items are not == decides by <
StatLess(x, y) ==
  IF ~FloatEq(FloatNeg(x.med), FloatNeg(y.med))
    THEN FloatLess(FloatNeg(x.med), FloatNeg(y.med))
  ELSE IF x.var # y.var THEN x.var < y.var
  ELSE IF PxKey(x.px) # PxKey(y.px) THEN PxKey(x.px) < PxKey(y.px)
  ELSE StrLess(x.fn, y.fn)

\* list.sort on a short list: the leading run is found and, when strictly
\* descending, reversed; the remaining items are inserted by binary search
RECURSIVE DescRun(_, _)
DescRun(a, n) ==
  IF n < Len(a) /\ StatLess(a[n + 1], a[n]) THEN DescRun(a, n + 1) ELSE n

RECURSIVE AscRun(_, _)
AscRun(a, n) ==
  IF n < Len(a) /\ ~StatLess(a[n + 1], a[n]) THEN AscRun(a, n + 1) ELSE n

RECURSIVE BinSearch(_, _, _, _)
BinSearch(a, pivot, l, r) ==
  IF l >= r THEN l
  ELSE LET p == l + ((r - l) \div 2)
       IN IF StatLess(pivot, a[p]) THEN BinSearch(a, pivot, l, p)
          ELSE BinSearch(a, pivot, p + 1, r)

RECURSIVE BinarySort(_, _)
BinarySort(a, start) ==
  IF start > Len(a) THEN a
  ELSE LET l == BinSearch(a, a[start], 1, start)
           b == [k \in 1..Len(a) |->
                   IF k < l \/ k > start THEN a[k]
                   ELSE IF k = l THEN a[start]
                   ELSE a[k - 1]]
       IN BinarySort(b, start + 1)

SortStats(a) ==
  IF Len(a) < 2 THEN a
  ELSE IF StatLess(a[2], a[1])
    THEN LET n == DescRun(a, 2)
             b == [k \in 1..Len(a) |-> IF k <= n THEN a[n + 1 - k] ELSE a[k]]
         IN BinarySort(b, n + 1)
  ELSE BinarySort(a, AscRun(a, 2) + 1)

(***************************************************************************)
(* Explored inputs: arguments, directory listings, table contents.         *)
(***************************************************************************)
\* the Python None, kept apart from every string
None == <<"<None>">>

Name(prefix, ymd, obs, flt, px, tail) ==
  prefix \o <<"_">> \o ymd \o <<"_">> \o obs \o <<"_">> \o flt
  \o (IF px = <<>> THEN <<>> ELSE <<"_">> \o px \o <<"p","x">>)
  \o <<"_">> \o tail

RunPrefix == <<"T","I","C","1","2","-","0","1">>
OtherPrefix == <<"T","I","C","1","3","-","0","1">>
Ymd1 == <<"2","0","2","3","0","1","1","5">>
Ymd2 == <<"2","0","2","3","0","1","1","6">>
ObsA == <<"O","b","s","A">>
ObsB == <<"O","b","s","B">>
FltV == <<"V">>
FltB == <<"B">>

VFile(px, tail) == Name(RunPrefix, Ymd1, ObsA, FltV, px, tail)
BFile(px, tail) == Name(RunPrefix, Ymd1, ObsA, FltB, px, tail)

\* a complete single-filter set: every required descriptor and the notes
CoreFiles ==
  {VFile(<<>>, T_tbl), VFile(<<>>, T_plotcfg), VFile(<<>>, T_radec),
   VFile(<<>>, T_compstar), VFile(<<>>, T_field), VFile(<<>>, T_fieldzoom),
   VFile(<<>>, T_WCS), VFile(<<>>, T_seeing), VFile(<<>>, T_notes)}

\* files of the complete set that a listing may lack
Droppable ==
  {VFile(<<>>, T_WCS), VFile(<<>>, T_notes), VFile(<<>>, T_plotcfg)}

\* groups of files a listing may hold besides: further measurement tables
\* of the filter, the table and image of a second filter, a second notes
\* file, files of another date, observatory or target, names outside the
\* grammar or the role table, and the two disallowed kinds
ExtraGroups ==
  {{VFile(<<"2","0">>, T_tbl)},
   {VFile(<<"0">>, T_tbl)},
   {BFile(<<>>, T_tbl), BFile(<<>>, T_WCS)},
   {BFile(<<>>, T_notes)},
   {Name(RunPrefix, Ymd2, ObsA, FltV, <<>>, T_lightcurve)},
   {Name(RunPrefix, Ymd1, ObsB, FltV, <<>>, T_lightcurve)},
   {Name(OtherPrefix, Ymd1, ObsA, FltV, <<>>, T_notes)},
   {<<"r","e","a","d","m","e",".","t","x","t">>},
   {VFile(<<>>, <<"l","o","g",".","t","x","t">>)},
   {VFile(<<>>, <<"s","e","e","i","n","g","-","p","r","o","f","i","l","e",".","g","i","f">>)},
   {<<"T","1","_","b","j","d","-","f","l","u","x","-","e","r","r",".","t","x","t">>}}

\* a listing is nothing, or the complete set, with at most MaxEdits changes:
\* a file of Droppable taken away or a group of ExtraGroups put in
Listings ==
  {(base \ drop) \cup UNION extra :
     base \in {{}, CoreFiles},
     <<drop, extra>> \in
       {de \in (SUBSET Droppable) \X (SUBSET ExtraGroups) :
          Cardinality(de[1]) + Cardinality(de[2]) <= MaxEdits}}

\* a table that reads: its column names are the fields of cols
Tbl(n, columns) == [readable |-> TRUE, nrows |-> n, cols |-> columns]

\* Table.read raises
TblUnreadable == [readable |-> FALSE, nrows |-> 0, cols |-> <<>>]

\* contents a measurement table may have; JD_UTC spans 0.01 day
TableContents ==
  {TblUnreadable,
   Tbl(2, [JD_UTC |-> <<0, 864>>, EXPTIME |-> <<60, 60>>]),
   Tbl(2, [Source_Radius |-> <<4, 4>>, JD_UTC |-> <<0, 864>>, EXPTIME |-> <<60, 60>>]),
   Tbl(2, [Source_Radius |-> <<2, 6>>, JD_UTC |-> <<0, 864>>, EXPOSURE |-> <<30, 30>>]),
   Tbl(2, [Source_Radius |-> <<NaN, NaN>>, JD_UTC |-> <<0, 864>>]),
   Tbl(0, [Source_Radius |-> <<>>, JD_UTC |-> <<>>, EXPTIME |-> <<>>])}

\* what reading the WCS of a plate-solved image gives: an exception, scales
\* that are not all finite and positive, or a mean scale in 1/1000 arcsec
WcsContents == {[ok |-> FALSE, mas |-> 0], [ok |-> TRUE, mas |-> 621]}

TicArgs == {<<"1","2",".","0","1">>, <<"1","2",".","1">>}
ToiArgs == {<<"5",".","0","1">>, <<"5",".","0","2">>, <<"x">>}
CoverageArgs == {<<>>, <<" ","I","n","g","r","e","s","s">>}
PsfArgs == {None, <<"3",".","4">>, <<"a","b","c">>}
DeltamagArgs == {None, <<"0">>}
PromptInputs == {<<>>, <<"3",".","4">>, <<"a","b","c">>}
Answers == {<<>>, <<"y">>, <<" ","Y"," ">>, <<"n">>, <<"y","e","s">>}
StatusCodes == {200, 500}
username == <<"u","s","e","r">>
group == "tfopwg"

(***************************************************************************)
(* State of one run.                                                       *)
(***************************************************************************)
VARIABLES
  pc,                \* position of the run in upload()
  exit_code,         \* process exit status, -1 while the run is going
  err,               \* message of the _err call that ended the run, or ""
  raised,            \* the uncaught exception that ended the run, or ""
  halted,            \* the step in which the run ended, or ""
  reported,          \* <<sorted(dates), sorted(observatories)>> of the message
  tic, toi, coverage, psf, deltamag, skip_summary, skip_files,
  tgt_prefix, tic_num, planet_tic, toi_lbl_upload,
  listing,           \* the regular files of the directory
  tables,            \* content of each measurement table read
  files, recognized, rejected, bases, global_notes,
  date, observatory, filter_list,
  chosen_tbl_by_flt,
  printed,           \* per filter, the recognized-file lines printed
  missing_by_flt, missing_opt_by_flt,
  asked,             \* number of "Proceed ... anyway?" prompts shown
  answer,            \* what was typed at that prompt
  deltamag_single,
  entries_by_flt, found_by_flt,
  i,                 \* index in filter_list of the filter being processed
  cur,               \* fields of the entry under construction while prompting
  uploads,           \* per filter, the ordered upload list built
  j,                 \* index in the upload list of the next file
  sent               \* the network calls made, in order

argvars == <<tic, toi, coverage, psf, deltamag, skip_summary, skip_files>>
targetvars == <<tgt_prefix, tic_num, planet_tic, toi_lbl_upload>>
classvars == <<files, recognized, rejected, bases, global_notes>>
setvars == <<date, observatory, filter_list>>
missvars == <<missing_by_flt, missing_opt_by_flt>>
entryvars == <<entries_by_flt, found_by_flt, cur>>
promptvars == <<asked, answer>>

vars == <<pc, exit_code, err, raised, halted, answer, reported, tic, toi, coverage, psf,
          deltamag, skip_summary, skip_files, tgt_prefix, tic_num, planet_tic,
          toi_lbl_upload, listing, tables, files, recognized, rejected, bases,
          global_notes, date, observatory, filter_list, chosen_tbl_by_flt,
          printed, missing_by_flt, missing_opt_by_flt, asked, deltamag_single,
          entries_by_flt, found_by_flt, i, cur, uploads, j, sent>>

Init ==
  /\ pc = "start"
  /\ exit_code = -1 /\ err = "" /\ raised = "" /\ halted = ""
  /\ reported = <<>>
  /\ tic = None /\ toi = None /\ coverage = None /\ psf = None
  /\ deltamag = None /\ skip_summary = FALSE /\ skip_files = FALSE
  /\ tgt_prefix = <<>> /\ tic_num = <<>> /\ planet_tic = <<>>
  /\ toi_lbl_upload = <<>>
  /\ listing = {} /\ tables = <<>>
  /\ files = <<>> /\ recognized = <<>> /\ rejected = <<>> /\ bases = {}
  /\ global_notes = <<>>
  /\ date = <<>> /\ observatory = <<>> /\ filter_list = <<>>
  /\ chosen_tbl_by_flt = <<>>
  /\ printed = <<>>
  /\ missing_by_flt = <<>> /\ missing_opt_by_flt = <<>>
  /\ asked = 0 /\ answer = None
  /\ deltamag_single = <<>>
  /\ entries_by_flt = <<>> /\ found_by_flt = <<>>
  /\ i = 0 /\ cur = <<>>
  /\ uploads = <<>> /\ j = 0
  /\ sent = <<>>

\* Failed taking only the codes above 500 for a failure
Failed_Above500(status) == status > 500

\* r is None or r.status_code>=400
Failed(status) == status >= 400

\* _err(m): print, bell, sys.exit(1)
Fatal(m) ==
  /\ pc' = "done"
  /\ exit_code' = 1
  /\ err' = m
  /\ raised' = ""
  /\ halted' = pc

\* an exception nothing catches: traceback, exit status 1
Uncaught(e) ==
  /\ pc' = "done"
  /\ exit_code' = 1
  /\ err' = ""
  /\ raised' = e
  /\ halted' = pc

Going(next) ==
  /\ pc' = next
  /\ UNCHANGED <<exit_code, err, raised, halted>>

\* re.fullmatch(r'(\d+)\.(\d{2})', s)
TargetMatch(s) ==
  LET a == RunEnd(s, 1, Digit)
  IN /\ a > 1 /\ At(s, a, ".")
     /\ RunEnd(s, a + 1, Digit) = a + 3
     /\ Len(s) = a + 2

TargetNum(s) == SubSeq(s, 1, RunEnd(s, 1, Digit) - 1)

TargetPlanet(s) == SubSeq(s, RunEnd(s, 1, Digit) + 1, Len(s))

(***************************************************************************)
(* The steps of the run.                                                   *)
(***************************************************************************)
\* directory, telsize, camera and coverage checks, then tic/toi parsing
CheckArgs ==
  /\ pc = "start"
  /\ \E isdir \in BOOLEAN, telsize \in {"", "0.4"}, camera \in {"", "CCD"},
        cv \in CoverageArgs, t \in TicArgs, o \in ToiArgs :
       LET tic_str == Strip(t)
           toi_str == Strip(o)
           m_tic == TargetMatch(tic_str)
           m_toi == IF toi_str # <<"0">> THEN TargetMatch(toi_str) ELSE FALSE
       IN /\ tic' = t /\ toi' = o /\ coverage' = cv
          /\ IF ~isdir THEN
               Fatal("ERROR: Invalid directory.") /\ UNCHANGED targetvars
             ELSE IF telsize = "" THEN
               Fatal("ERROR: Please provide telescope size via --telsize.")
               /\ UNCHANGED targetvars
             ELSE IF camera = "" THEN
               Fatal("ERROR: Please provide camera name via --camera.")
               /\ UNCHANGED targetvars
             ELSE IF cv = <<>> THEN
               Fatal("ERROR: Please provide --coverage.")
               /\ UNCHANGED targetvars
             ELSE IF ~m_tic \/ (toi_str # <<"0">> /\ ~m_toi) THEN
               Fatal("ERROR: tic and toi must look like 12345678.01 and 1234.01.")
               /\ UNCHANGED targetvars
             ELSE IF toi_str # <<"0">> /\ TargetPlanet(tic_str) # TargetPlanet(toi_str) THEN
               Fatal("ERROR: Planet indices of tic and toi must match.")
               /\ UNCHANGED targetvars
             ELSE
               /\ Going("login")
               /\ tic_num' = TargetNum(tic_str)
               /\ planet_tic' = TargetPlanet(tic_str)
               /\ toi_lbl_upload' =
                    IF toi_str = <<"0">> THEN <<>> ELSE <<"T","O","I">> \o toi_str
               /\ tgt_prefix' = <<"T","I","C">> \o TargetNum(tic_str)
                                \o <<"-">> \o TargetPlanet(tic_str)
  /\ UNCHANGED <<reported, psf, deltamag, skip_summary, skip_files, listing,
                 tables, classvars, setvars, chosen_tbl_by_flt, printed,
                 missvars, promptvars, deltamag_single, entryvars, i, uploads, j,
                 sent>>

\* s.post(password_check.php)
Login ==
  /\ pc = "login"
  /\ \E status \in StatusCodes :
       /\ sent' = Append(sent, [call |-> "login", flt |-> <<>>, fn |-> <<>>,
                                status |-> status])
       /\ IF Failed(status) THEN Fatal("ERROR: Login failed.")
          ELSE Going("discover")
  /\ UNCHANGED <<reported, argvars, targetvars, listing, tables, classvars,
                 setvars, chosen_tbl_by_flt, printed, missvars, promptvars,
                 deltamag_single, entryvars, i, uploads, j>>

\* Disallowed with the suffix test only
Disallowed_SuffixOnly(f) ==
  EndsWith(f, <<"s","e","e","i","n","g","-","p","r","o","f","i","l","e",".","g","i","f">>)

\* f.endswith('seeing-profile.gif') or ('bjd-flux-err' in f)
Disallowed(f) ==
  \/ EndsWith(f, <<"s","e","e","i","n","g","-","p","r","o","f","i","l","e",".","g","i","f">>)
  \/ Contains(f, <<"b","j","d","-","f","l","u","x","-","e","r","r">>)

\* files=sorted(listdir), then the disallowed-file loop
Discover ==
  /\ pc = "discover"
  /\ \E d \in Listings :
       /\ listing' = d
       /\ files' = SortedStrs(d)
       /\ IF \E f \in d : Disallowed(f)
            THEN Fatal("ERROR: Disallowed file present")
            ELSE Going("classify")
  /\ UNCHANGED <<reported, argvars, targetvars, tables, recognized, rejected,
                 bases, global_notes, setvars, chosen_tbl_by_flt, printed,
                 missvars, promptvars, deltamag_single, entryvars, i, uploads, j,
                 sent>>

\* the records of the loop over files, in order
Classified == [k \in 1..Len(files) |-> ClassifyOne(files[k], tgt_prefix)]

RecordOf(c) ==
  [fn |-> c.fn, desc |-> c.desc, ymd |-> c.ymd, obs |-> c.obs,
   flt |-> c.flt, px |-> c.px]

\* the classification loop
Classify ==
  /\ pc = "classify"
  /\ LET cs == Classified
         rec == SelectSeq(cs, LAMBDA c : c.rec)
         rej == SelectSeq(cs, LAMBDA c : ~c.rec)
     IN /\ recognized' = [k \in 1..Len(rec) |-> RecordOf(rec[k])]
        /\ rejected' = [k \in 1..Len(rej) |-> <<rej[k].fn, rej[k].why>>]
        /\ bases' = {<<rec[k].ymd, rec[k].obs>> : k \in 1..Len(rec)}
        /\ global_notes' =
             LET ns == SelectSeq(rec, LAMBDA c : c.desc = NotesText)
             IN [k \in 1..Len(ns) |-> <<ns[k].fn, <<ns[k].ymd, ns[k].obs>>>>]
  /\ Going("consistency")
  /\ UNCHANGED <<reported, argvars, targetvars, listing, tables, files,
                 setvars, chosen_tbl_by_flt, printed, missvars, promptvars,
                 deltamag_single, entryvars, i, uploads, j, sent>>

\* Inconsistent comparing the dates only
Inconsistent_DatesOnly(dates, observatories) == Cardinality(dates) > 1

\* len(dates)>1 or len(observatories)>1
Inconsistent(dates, observatories) ==
  Cardinality(dates) > 1 \/ Cardinality(observatories) > 1

\* the empty-recognized and the single date / observatory checks
ValidateConsistency ==
  /\ pc = "consistency"
  /\ LET dates == {b[1] : b \in bases}
         observatories == {b[2] : b \in bases}
     IN IF recognized = <<>> THEN
          /\ Fatal("ERROR: No recognized files for given TIC/TOI.")
          /\ UNCHANGED <<reported, setvars>>
        ELSE IF Inconsistent(dates, observatories) THEN
          /\ Fatal("ERROR: Multiple dates/observatories found")
          /\ reported' = <<SortedStrs(dates), SortedStrs(observatories)>>
          /\ UNCHANGED setvars
        ELSE
          /\ Going("notes")
          /\ date' = CHOOSE d \in dates : TRUE
          /\ observatory' = CHOOSE o \in observatories : TRUE
          /\ filter_list' = SortedStrs({recognized[k].flt : k \in 1..Len(recognized)})
          /\ UNCHANGED reported
  /\ UNCHANGED <<argvars, targetvars, listing, tables, classvars,
                 chosen_tbl_by_flt, printed, missvars, promptvars, deltamag_single,
                 entryvars, i, uploads, j, sent>>

\* NotesCountBad accepting several notes files
NotesCountBad_AtLeastOne(notes) == Len(notes) < 1

\* len(global_notes)!=1
NotesCountBad(notes) == Len(notes) # 1

\* exactly one notes.txt, of the date and observatory of the set
CheckNotes ==
  /\ pc = "notes"
  /\ IF NotesCountBad(global_notes) THEN
       Fatal("ERROR: Exactly one notes.txt must be present.")
     ELSE IF \E k \in 1..Len(global_notes) :
               \/ global_notes[k][2][1] # date
               \/ global_notes[k][2][2] # observatory THEN
       Fatal("ERROR: notes.txt must match the date and observatory of the set.")
     ELSE Going("select")
  /\ UNCHANGED <<reported, argvars, targetvars, listing, tables, classvars,
                 setvars, chosen_tbl_by_flt, printed, missvars, promptvars,
                 deltamag_single, entryvars, i, uploads, j, sent>>

\* cands of one filter, in the order of recognized
Cands(flt) ==
  SelectSeq(recognized, LAMBDA x : x.flt = flt /\ x.desc = MeasTable)

\* computing the statistics of table t ends in an uncaught ValueError
StatRaises(t) ==
  t.readable /\ "Source_Radius" \in DOMAIN t.cols
  /\ SpanRaises(t.cols.Source_Radius)

\* stats of one filter, sorted
RankedStats(flt, tbls) ==
  LET cands == Cands(flt)
  IN SortStats([k \in 1..Len(cands) |-> StatOf(cands[k], tbls[cands[k].fn])])

\* the canonical-table loop over the filters
SelectCanonical ==
  /\ pc = "select"
  /\ LET meas == {recognized[k].fn : k \in {n \in 1..Len(recognized) :
                                            recognized[n].desc = MeasTable}}
         withCands == {f \in Range(filter_list) : Cands(f) # <<>>}
     IN \E tbls \in [meas -> TableContents] :
          /\ tables' = tbls
          /\ IF \E fn \in meas : StatRaises(tbls[fn]) THEN
               /\ Uncaught("ValueError")
               /\ UNCHANGED chosen_tbl_by_flt
             ELSE
               /\ Going("display")
               /\ chosen_tbl_by_flt' =
                    [f \in withCands |-> RankedStats(f, tbls)[1].fn]
  /\ UNCHANGED <<reported, argvars, targetvars, listing, classvars, setvars,
                 printed, missvars, promptvars, deltamag_single, entryvars, i,
                 uploads, j, sent>>

\* found of one filter: per descriptor, the filenames in recognized order
Found(flt) ==
  [d \in Descriptors |->
     LET xs == SelectSeq(recognized,
                 LAMBDA x : x.flt = flt /\ x.ymd = date
                            /\ x.obs = observatory /\ x.desc = d)
     IN [k \in 1..Len(xs) |-> xs[k].fn]]

\* chosen_tbl_by_flt.get(flt): <<>> stands for None
ChosenGet(flt) ==
  IF flt \in DOMAIN chosen_tbl_by_flt THEN chosen_tbl_by_flt[flt] ELSE <<>>

WithoutStr(s, x) == SelectSeq(s, LAMBDA y : y # x)

Tagged(fns, typ) == [k \in 1..Len(fns) |-> <<fns[k], typ>>]

\* the listing loop over order_types, from type number n on
RECURSIVE ListFrom(_, _, _)
ListFrom(flt, found, n) ==
  IF n > Len(order_types) THEN <<>>
  ELSE LET typ == order_types[n]
           files_of_type == SortedStrs(Range(found[typ]))
           ct == ChosenGet(flt)
           block == IF typ = MeasTable /\ ct # <<>> /\ ct \in Range(files_of_type)
                      THEN <<<<ct, typ>>>> \o Tagged(WithoutStr(files_of_type, ct), typ)
                      ELSE Tagged(files_of_type, typ)
       IN block \o ListFrom(flt, found, n + 1)

\* the recognized-file lines printed per filter
DisplayRecognized ==
  /\ pc = "display"
  /\ printed' = [f \in Range(filter_list) |-> ListFrom(f, Found(f), 1)]
  /\ Going("completeness")
  /\ UNCHANGED <<reported, argvars, targetvars, listing, tables, classvars,
                 setvars, chosen_tbl_by_flt, missvars, promptvars, deltamag_single,
                 entryvars, i, uploads, j, sent>>

\* missing required and optional descriptors per filter
CheckCompleteness ==
  /\ pc = "completeness"
  /\ missing_by_flt' =
       [f \in Range(filter_list) |->
          SelectSeq(required_keys_per_filter, LAMBDA k : Found(f)[k] = <<>>)]
  /\ missing_opt_by_flt' =
       [f \in Range(filter_list) |-> {k \in optional_keys : Found(f)[k] = <<>>}]
  /\ Going("confirm")
  /\ UNCHANGED <<reported, argvars, targetvars, listing, tables, classvars,
                 setvars, chosen_tbl_by_flt, printed, promptvars, deltamag_single,
                 entryvars, i, uploads, j, sent>>

\* Affirmative taking everything but n for a yes
Affirmative_AllButN(a) == ToLower(Strip(a)) # <<"n">>

\* input(...).strip().lower()!='y' is false
Affirmative(a) == ToLower(Strip(a)) = <<"y">>

AnyMissing == \E f \in Range(filter_list) : missing_by_flt[f] # <<>>

\* the "Proceed with recognized files anyway?" prompt
Confirm ==
  /\ pc = "confirm"
  /\ \/ /\ ~AnyMissing
        /\ Going("prepare")
        /\ UNCHANGED promptvars
     \/ /\ AnyMissing
        /\ asked' = asked + 1
        /\ \E a \in Answers :
             /\ answer' = a
             /\ IF ~Affirmative(a)
                  THEN Fatal("Aborted by user due to missing required TFOP files.")
                  ELSE Going("prepare")
  /\ UNCHANGED <<reported, argvars, targetvars, listing, tables, classvars,
                 setvars, chosen_tbl_by_flt, printed, missvars,
                 deltamag_single, entryvars, i, uploads, j, sent>>

single_filter == Len(filter_list) = 1

\* the --psf / --deltamag checks of a single-filter run
PrepareEntries ==
  /\ pc = "prepare"
  /\ IF ~single_filter THEN
       /\ Going("build")
       /\ i' = 1
       /\ UNCHANGED <<psf, deltamag, deltamag_single>>
     ELSE
       \E p \in PsfArgs :
         /\ psf' = p
         /\ IF p \in {None, <<>>} THEN
              /\ Fatal("ERROR: Single-filter run: please supply --psf")
              /\ UNCHANGED <<deltamag, deltamag_single, i>>
            ELSE
              \E dm \in DeltamagArgs :
                /\ deltamag' = dm
                /\ IF dm \in {None, <<>>} THEN
                     /\ Fatal("ERROR: Single-filter run: please supply --deltamag")
                     /\ UNCHANGED <<deltamag_single, i>>
                   ELSE
                     /\ Going("build")
                     /\ i' = 1
                     /\ deltamag_single' =
                          IF Strip(dm) = <<"0">> THEN <<>> ELSE Strip(dm)
  /\ UNCHANGED <<reported, tic, toi, coverage, skip_summary, skip_files,
                 targetvars, listing, tables, classvars, setvars,
                 chosen_tbl_by_flt, printed, missvars, promptvars, entryvars,
                 uploads, j, sent>>

\* {'full':..,'ingress':..,'egress':..,'out of transit':..}.get(..., 'Full')
Cov(c) ==
  LET k == ToLower(Strip(c))
  IN IF k = <<"i","n","g","r","e","s","s">> THEN "Ingress"
     ELSE IF k = <<"e","g","r","e","s","s">> THEN "Egress"
     ELSE IF k = <<"o","u","t"," ","o","f"," ","t","r","a","n","s","i","t">>
       THEN "Out of Transit"
     ELSE "Full"

\* f"{date}_{username}_tic{tic_num}_{planet_tic}"
Tag ==
  date \o <<"_">> \o username \o <<"_","t","i","c">> \o tic_num
  \o <<"_">> \o planet_tic

\* f"{date[:4]}-{date[4:6]}-{date[6:]}"
ObsDate ==
  Slice(date, 1, 4) \o <<"-">> \o Slice(date, 5, 6) \o <<"-">>
  \o Slice(date, 7, Len(date))

\* the table the entry of filter flt is built from
ChosenFor(flt, found) ==
  IF ChosenGet(flt) \in Range(found[MeasTable]) THEN ChosenGet(flt)
  ELSE SortedStrs(Range(found[MeasTable]))[1]

\* exposure of row r: EXPTIME, else EXPOSURE, else 0
Exposure(t, r) ==
  IF "EXPTIME" \in DOMAIN t.cols THEN t.cols.EXPTIME[r]
  ELSE IF "EXPOSURE" \in DOMAIN t.cols THEN t.cols.EXPOSURE[r]
  ELSE 0

\* str(int(round((end-start)*24*60))), times in seconds
ObsDur(t) ==
  LET jd0 == t.cols.JD_UTC[1]
      jd1 == t.cols.JD_UTC[t.nrows]
  IN RoundHalfEven(2 * (jd1 - jd0) + Exposure(t, 1) + Exposure(t, t.nrows), 120)

\* the first plate-solved image with a valid solution: its index, or 0
RECURSIVE FirstValid(_, _)
FirstValid(ws, n) ==
  IF n > Len(ws) THEN 0
  ELSE IF ws[n].ok THEN n
  ELSE FirstValid(ws, n + 1)

\* f"{float(f'{mean:.2g}')}" of a scale below one arcsec, in 1/1000 arcsec
PixScale(mas) == 10 * RoundHalfEven(mas, 10)

\* photaprad: <<>> is the empty string, <<m>> the median printed
PhotApRad(t) ==
  IF "Source_Radius" \in DOMAIN t.cols
    THEN <<NanMedian(t.cols.Source_Radius)>>
    ELSE <<>>

\* var_note
VarNote(t) ==
  IF /\ "Source_Radius" \in DOMAIN t.cols
     /\ ~SpanRaises(t.cols.Source_Radius)
     /\ ~IsNaN(NanSpan(t.cols.Source_Radius))
     /\ NanSpan(t.cols.Source_Radius) > 0
    THEN "aperture radius was variable in time"
    ELSE ""

\* the entries dict of one filter
Entry(flt, t, mas, psf_final, deltamag_final) ==
  [planet |-> toi_lbl_upload, tel |-> observatory, telsize |-> "0.4",
   camera |-> "CCD", filter |-> flt, pixscale |-> PixScale(mas),
   psf |-> psf_final, photaprad |-> PhotApRad(t), obsdate |-> ObsDate,
   obsdur |-> ObsDur(t), obsnum |-> t.nrows, obstype |-> "Continuous",
   transcov |-> Cov(coverage), deltamag |-> deltamag_final, tag |-> Tag,
   groupname |-> group, notes |-> VarNote(t), id |-> tic_num]

\* entries_by_flt[flt]=entries; found_by_flt[flt]=found; next filter
StoreEntry(flt, e, found) ==
  /\ entries_by_flt' = (flt :> e) @@ entries_by_flt
  /\ found_by_flt' = (flt :> found) @@ found_by_flt
  /\ cur' = <<>>
  /\ i' = i + 1
  /\ Going(IF i = Len(filter_list) THEN "gate" ELSE "build")

\* one iteration of the entry loop, up to the prompts of a multi-filter run
BuildEntry ==
  /\ pc = "build"
  /\ LET flt == filter_list[i]
         found == Found(flt)
         wfns == found[PlateSolved]
     IN IF found[MeasTable] = <<>> THEN
          /\ Fatal("ERROR: No measurement table found for filter")
          /\ UNCHANGED <<entryvars, i>>
        ELSE
          LET t == tables[ChosenFor(flt, found)]
          IN IF ~t.readable THEN
               /\ Uncaught("Table.read")
               /\ UNCHANGED <<entryvars, i>>
             ELSE IF "JD_UTC" \notin DOMAIN t.cols THEN
               /\ Fatal("ERROR: JD_UTC not found in table")
               /\ UNCHANGED <<entryvars, i>>
             ELSE IF t.nrows = 0 THEN
               /\ Uncaught("IndexError")
               /\ UNCHANGED <<entryvars, i>>
             ELSE
               \E ws \in [1..Len(wfns) -> WcsContents] :
                 IF FirstValid(ws, 1) = 0 THEN
                   /\ Fatal("ERROR: No valid WCS solution found in Plate-Solved Image")
                   /\ UNCHANGED <<entryvars, i>>
                 ELSE IF single_filter THEN
                   StoreEntry(flt, Entry(flt, t, ws[FirstValid(ws, 1)].mas,
                                         Strip(psf), deltamag_single), found)
                 ELSE
                   /\ Going("ask_psf")
                   /\ cur' = [mas |-> ws[FirstValid(ws, 1)].mas, psf |-> <<>>]
                   /\ UNCHANGED <<entries_by_flt, found_by_flt, i>>
  /\ UNCHANGED <<reported, argvars, targetvars, listing, tables, classvars,
                 setvars, chosen_tbl_by_flt, printed, missvars, promptvars,
                 deltamag_single, uploads, j, sent>>

\* one round of the "Estimated PSF" prompt loop
AskPsf ==
  /\ pc = "ask_psf"
  /\ \E psf_in \in PromptInputs :
       IF IsFloat(Strip(psf_in))
         THEN /\ cur' = [cur EXCEPT !.psf = Strip(psf_in)]
              /\ Going("ask_deltamag")
         ELSE UNCHANGED <<cur, pc, exit_code, err, raised, halted>>
  /\ UNCHANGED <<reported, argvars, targetvars, listing, tables, classvars,
                 setvars, chosen_tbl_by_flt, printed, missvars, promptvars,
                 deltamag_single, entries_by_flt, found_by_flt, i, uploads, j,
                 sent>>

\* one round of the "Faintest Neighbor delta Mag" prompt loop, then the
\* rest of the iteration
AskDeltamag ==
  /\ pc = "ask_deltamag"
  /\ LET flt == filter_list[i]
         found == Found(flt)
         t == tables[ChosenFor(flt, found)]
     IN \E dm_in \in PromptInputs :
          IF Strip(dm_in) = <<>> \/ IsFloat(Strip(dm_in))
            THEN StoreEntry(flt, Entry(flt, t, cur.mas, cur.psf, Strip(dm_in)),
                            found)
            ELSE UNCHANGED <<entryvars, i, pc, exit_code, err, raised, halted>>
  /\ UNCHANGED <<reported, argvars, targetvars, listing, tables, classvars,
                 setvars, chosen_tbl_by_flt, printed, missvars, promptvars,
                 deltamag_single, uploads, j, sent>>

\* return: the run ends normally
Return ==
  /\ pc' = "done"
  /\ exit_code' = 0
  /\ halted' = pc
  /\ UNCHANGED <<err, raised>>

\* the both-skipped return and the final "Press Enter to submit" prompt
SubmitGate ==
  /\ pc = "gate"
  /\ \E ss \in BOOLEAN, sf \in BOOLEAN :
       /\ skip_summary' = ss /\ skip_files' = sf
       /\ IF ss /\ sf THEN Return /\ UNCHANGED i
          ELSE \E ans \in Answers :
                 IF ToLower(Strip(ans)) = <<"n">>
                   THEN Fatal("User cancelled before uploads.") /\ UNCHANGED i
                   ELSE Going("submit") /\ i' = 1
  /\ UNCHANGED <<reported, tic, toi, coverage, psf, deltamag, targetvars,
                 listing, tables, classvars, setvars, chosen_tbl_by_flt,
                 printed, missvars, promptvars, deltamag_single, entryvars, uploads,
                 j, sent>>

\* UploadOrder without the canonical table moved to the front
UploadOrder_PlainSort(flt, found) ==
  LET rest[n \in 1..(Len(order_types) + 1)] ==
        IF n > Len(order_types) THEN <<>>
        ELSE Tagged(SortedStrs(Range(found[order_types[n]])), order_types[n])
             \o rest[n + 1]
  IN rest[1]

\* the upload list of one filter
UploadOrder(flt, found) ==
  LET meas_candidates == SortedStrs(Range(found[MeasTable]))
      chosen_tbl == ChosenGet(flt)
      head == IF chosen_tbl # <<>> /\ chosen_tbl \in Range(meas_candidates)
                THEN <<<<chosen_tbl, MeasTable>>>>
                     \o Tagged(WithoutStr(meas_candidates, chosen_tbl), MeasTable)
                ELSE Tagged(meas_candidates, MeasTable)
      rest[n \in 2..(Len(order_types) + 1)] ==
        IF n > Len(order_types) THEN <<>>
        ELSE Tagged(SortedStrs(Range(found[order_types[n]])), order_types[n])
             \o rest[n + 1]
  IN head \o rest[2]

\* after the last call of a filter: the next filter, or the end of the run
NextFilter ==
  /\ i' = i + 1
  /\ IF i = Len(filter_list) THEN Return ELSE Going("submit")

Call(c, flt, fn, status) == [call |-> c, flt |-> flt, fn |-> fn, status |-> status]

\* the summary post of one filter and the building of its upload list
PostSummary ==
  /\ pc = "submit"
  /\ LET flt == filter_list[i]
         ordered == UploadOrder(flt, found_by_flt[flt])
         Proceed == IF ~skip_files
                      THEN /\ uploads' = (flt :> ordered) @@ uploads
                           /\ IF ordered = <<>>
                                THEN NextFilter /\ UNCHANGED j
                                ELSE Going("upload") /\ j' = 1 /\ UNCHANGED i
                      ELSE NextFilter /\ UNCHANGED <<uploads, j>>
     IN IF skip_summary THEN Proceed /\ UNCHANGED sent
        ELSE \E status \in StatusCodes :
               /\ sent' = Append(sent, Call("insert_tseries", flt, <<>>, status))
               /\ IF Failed(status)
                    THEN /\ Fatal("ERROR: Time Series Add failed")
                         /\ UNCHANGED <<uploads, i, j>>
                    ELSE Proceed
  /\ UNCHANGED <<reported, argvars, targetvars, listing, tables, classvars,
                 setvars, chosen_tbl_by_flt, printed, missvars, promptvars,
                 deltamag_single, entryvars>>

\* the upload of one file of the list
UploadFile ==
  /\ pc = "upload"
  /\ LET flt == filter_list[i]
         fn == uploads[flt][j][1]
     IN \E status \in StatusCodes :
          /\ sent' = Append(sent, Call("insert_file", flt, fn, status))
          /\ IF Failed(status)
               THEN Fatal("ERROR: File upload failed") /\ UNCHANGED <<i, j>>
               ELSE IF j < Len(uploads[flt])
                 THEN Going("upload") /\ j' = j + 1 /\ UNCHANGED i
                 ELSE NextFilter /\ UNCHANGED j
  /\ UNCHANGED <<reported, argvars, targetvars, listing, tables, classvars,
                 setvars, chosen_tbl_by_flt, printed, missvars, promptvars,
                 deltamag_single, entryvars, uploads>>

Next ==
  \/ CheckArgs
  \/ Login
  \/ Discover
  \/ Classify
  \/ ValidateConsistency
  \/ CheckNotes
  \/ SelectCanonical
  \/ DisplayRecognized
  \/ CheckCompleteness
  \/ Confirm
  \/ PrepareEntries
  \/ BuildEntry
  \/ AskPsf
  \/ AskDeltamag
  \/ SubmitGate
  \/ PostSummary
  \/ UploadFile

Spec == Init /\ [][Next]_vars

(***************************************************************************)
(* Properties.                                                             *)
(***************************************************************************)
StepOrder ==
  <<"start", "login", "discover", "classify", "consistency", "notes",
    "select", "display", "completeness", "confirm", "prepare", "build",
    "ask_psf", "ask_deltamag", "gate", "submit", "upload">>

Pos(step) == CHOOSE n \in 1..Len(StepOrder) : StepOrder[n] = step

\* the step the run is at, or ended in
Where == IF pc = "done" THEN halted ELSE pc

\* step was taken: the run is beyond it, or ended in it
Taken(step) ==
  \/ Pos(Where) > Pos(step)
  \/ pc = "done" /\ halted = step

RecognizedFns == {recognized[k].fn : k \in 1..Len(recognized)}

\* C1: when the classification loop has run, every listed file is exactly once in exactly one
\* of recognized and rejected; it is recognized exactly when it matches the
\* grammar, carries the run's target prefix and has a known role tail, and
\* is otherwise rejected with the reason of the first check that fails.
C1_ClassificationTotal ==
  pc = "consistency" =>
    \A f \in listing :
      LET m == BaseMatch(f)
          recs == {k \in 1..Len(recognized) : recognized[k].fn = f}
          rejs == {k \in 1..Len(rejected) : rejected[k][1] = f}
          prefixOk == m.ok /\ m.tgt \o <<"-">> \o m.pp = tgt_prefix
          roleOk == prefixOk /\ \E n \in 1..Len(allowed_specs) :
                                  allowed_specs[n][1] = m.tail
      IN /\ Cardinality(recs) + Cardinality(rejs) = 1
         /\ (recs # {}) <=> roleOk
         /\ \A k \in rejs :
              rejected[k][2] =
                IF ~m.ok THEN "Name does not match pattern"
                ELSE IF ~prefixOk THEN "TIC/planet mismatch"
                ELSE "Unrecognized filetype token"

C1_Witness ==
  /\ pc = "consistency"
  /\ recognized # <<>>
  /\ \E a \in 1..Len(rejected) : rejected[a][2] = "TIC/planet mismatch"

GifSuffix == <<"s","e","e","i","n","g","-","p","r","o","f","i","l","e",".","g","i","f">>
BjdWord == <<"b","j","d","-","f","l","u","x","-","e","r","r">>

HasDisallowed == \E f \in listing : EndsWith(f, GifSuffix) \/ Contains(f, BjdWord)

\* C7: a listing with a file that ends in seeing-profile.gif or contains
\* bjd-flux-err ends the run fatally in the listing step, with nothing
\* classified, whatever the other files are.
C7_DisallowedAbortsBeforeClassify ==
  HasDisallowed =>
    /\ pc = "done" /\ halted = "discover" /\ exit_code = 1
    /\ recognized = <<>> /\ rejected = <<>>

C7_Witness ==
  /\ pc = "done" /\ halted = "discover"
  /\ \E f \in listing : Contains(f, BjdWord)
  /\ CoreFiles \subseteq listing

RecPairs == {<<recognized[k].ymd, recognized[k].obs>> : k \in 1..Len(recognized)}
RecDates == {recognized[k].ymd : k \in 1..Len(recognized)}
RecObs == {recognized[k].obs : k \in 1..Len(recognized)}
RecFilters == {recognized[k].flt : k \in 1..Len(recognized)}

\* s lists exactly the strings of S, each once, in ascending order
ListsSorted(s, S) ==
  /\ Range(s) = S /\ Len(s) = Cardinality(S)
  /\ \A k \in 1..(Len(s) - 1) : StrLess(s[k], s[k + 1])

NothingSelectedOrBuilt == chosen_tbl_by_flt = <<>> /\ entries_by_flt = <<>>

\* C2: once the consistency check has run, recognized files of more than
\* one (date, observatory) pair mean the run ended there with the multiple
\* dates/observatories error naming every distinct date and observatory,
\* and no recognized file means it ended there with the no-recognized-files
\* error; in both cases no table was selected and no entry built.
C2_ConsistencyFatal ==
  Taken("consistency") =>
    /\ Cardinality(RecPairs) > 1 =>
         /\ pc = "done" /\ halted = "consistency" /\ exit_code = 1
         /\ err = "ERROR: Multiple dates/observatories found"
         /\ Len(reported) = 2
         /\ ListsSorted(reported[1], RecDates)
         /\ ListsSorted(reported[2], RecObs)
         /\ NothingSelectedOrBuilt
    /\ recognized = <<>> =>
         /\ pc = "done" /\ halted = "consistency" /\ exit_code = 1
         /\ err = "ERROR: No recognized files for given TIC/TOI."
         /\ NothingSelectedOrBuilt

C2_Witness ==
  /\ pc = "done" /\ halted = "consistency"
  /\ Cardinality(RecPairs) = 2 /\ Cardinality(RecObs) = 2
  /\ Len(reported[2]) = 2

NotesRecs == {k \in 1..Len(recognized) : recognized[k].desc = NotesText}

\* C3: a run goes beyond the notes check only with exactly one recognized
\* notes file, of the date and observatory of the set; a run that ends in
\* the notes check ends fatally, with no table selected, no completeness
\* result, no confirmation asked and no entry built.
C3_SingleNotes ==
  /\ (Taken("notes") /\ ~(pc = "done" /\ halted = "notes")) =>
       /\ Cardinality(NotesRecs) = 1
       /\ \A k \in NotesRecs :
            recognized[k].ymd = date /\ recognized[k].obs = observatory
  /\ (pc = "done" /\ halted = "notes") =>
       /\ exit_code = 1
       /\ err \in {"ERROR: Exactly one notes.txt must be present.",
                   "ERROR: notes.txt must match the date and observatory of the set."}
       /\ Cardinality(NotesRecs) # 1
       /\ NothingSelectedOrBuilt
       /\ missing_by_flt = <<>> /\ asked = 0

C3_Witness ==
  pc = "done" /\ halted = "notes" /\ Cardinality(NotesRecs) = 2

\* the ranking tuple of a candidate as the claim defines it
ClaimStat(x) ==
  LET t == tables[x.fn]
      has == t.readable /\ "Source_Radius" \in DOMAIN t.cols
      span == NanSpan(t.cols.Source_Radius)
  IN [fn |-> x.fn,
      med |-> IF has THEN NanMedian(t.cols.Source_Radius) ELSE Sentinel,
      var |-> IF has /\ ~IsNaN(span) /\ span = 0 THEN 0 ELSE 1,
      px |-> IF IsDigitStr(x.px) THEN ToInt(x.px) ELSE 0]

\* a ranks strictly before b: larger median, then smaller variability
\* flag, then larger pixel size, then smaller filename
RanksBefore(a, b) ==
  \/ FloatLess(b.med, a.med)
  \/ /\ FloatEq(a.med, b.med)
     /\ \/ a.var < b.var
        \/ /\ a.var = b.var
           /\ \/ a.px > b.px
              \/ a.px = b.px /\ StrLess(a.fn, b.fn)

MeasOf(f) ==
  {k \in 1..Len(recognized) :
     recognized[k].flt = f /\ recognized[k].desc = MeasTable}

\* C4: once the tables are selected, every filter with a candidate has as
\* canonical table the candidate that ranks strictly before every other
\* candidate of the filter under (-median, variability, -pixel size, name).
C4_CanonicalIsTupleMinimum ==
  pc = "display" =>
    \A f \in RecFilters :
      MeasOf(f) # {} =>
        /\ f \in DOMAIN chosen_tbl_by_flt
        /\ \E c \in MeasOf(f) :
             /\ recognized[c].fn = chosen_tbl_by_flt[f]
             /\ \A d \in MeasOf(f) \ {c} :
                  RanksBefore(ClaimStat(recognized[c]), ClaimStat(recognized[d]))

\* the required descriptors with no recognized file of filter f
ReqMissing(f) ==
  {d \in Range(required_keys_per_filter) :
     ~\E k \in 1..Len(recognized) :
        recognized[k].flt = f /\ recognized[k].desc = d}

SomeRequiredMissing == \E f \in RecFilters : ReqMissing(f) # {}

AnsweredYes == ToLower(Strip(answer)) = <<"y">>

NothingSubmitted ==
  \A k \in 1..Len(sent) : sent[k].call = "login"

\* C5: after the completeness check every filter's missing list holds
\* exactly the required descriptors without a recognized file of the
\* filter; the confirmation is asked exactly when some filter misses a
\* required descriptor, at most once and with no entry built yet; an answer
\* that is not y ends the run fatally there, with no entry built and
\* nothing submitted, and the answer y lets the run go on.
C5_MissingRequiredConfirmed ==
  /\ asked <= 1
  /\ Pos(Where) <= Pos("confirm") => entries_by_flt = <<>>
  /\ Pos(Where) > Pos("completeness") =>
       /\ DOMAIN missing_by_flt = RecFilters
       /\ \A f \in RecFilters :
            /\ Range(missing_by_flt[f]) = ReqMissing(f)
            /\ Len(missing_by_flt[f]) = Cardinality(ReqMissing(f))
  /\ asked = 1 <=> (Taken("confirm") /\ SomeRequiredMissing)
  /\ (asked = 1 /\ ~AnsweredYes) =>
       /\ pc = "done" /\ halted = "confirm" /\ exit_code = 1
       /\ err = "Aborted by user due to missing required TFOP files."
       /\ entries_by_flt = <<>> /\ uploads = <<>>
       /\ NothingSubmitted
  /\ (asked = 1 /\ AnsweredYes) => ~(pc = "done" /\ halted = "confirm")

C5_Witness ==
  /\ pc = "done" /\ halted = "confirm"
  /\ asked = 1 /\ answer = <<"y", "e", "s">>
  /\ \E f \in RecFilters : Cardinality(ReqMissing(f)) = 1

UserCancelled == err = "User cancelled before uploads."

\* C6: a run that ended on a fatal error ended with exit code 1; a run that
\* completed normally, or that the user cancelled with n at the final
\* submit prompt, ended with exit code 0.
C6_ExitCodes ==
  pc = "done" =>
    exit_code = IF UserCancelled THEN 0
                ELSE IF err # "" \/ raised # "" THEN 1
                ELSE 0

\* C8: a single-filter run builds an entry only from a --psf and a
\* --deltamag that are numbers, ends fatally in the argument check when one
\* of them is missing, and turns a --deltamag of 0 into an empty field.
C8_SingleFilterNumeric ==
  single_filter =>
    /\ \A f \in DOMAIN entries_by_flt :
         /\ IsFloat(Strip(psf)) /\ IsFloat(Strip(deltamag))
         /\ Strip(deltamag) = <<"0">> => entries_by_flt[f].deltamag = <<>>
    /\ (Taken("prepare") /\ (psf \in {None, <<>>} \/ deltamag \in {None, <<>>})) =>
         pc = "done" /\ halted = "prepare" /\ exit_code = 1

\* the measurement-table candidates of filter f are all unreadable
OnlyUnreadable(f) ==
  MeasOf(f) # {} /\ \A k \in MeasOf(f) : ~tables[recognized[k].fn].readable

\* C10: no run ends on the table reader's exception; a run that reaches
\* the entry of a filter whose only candidates are unreadable ends with
\* the no-measurement-table error.
C10_TableReadNeverRaw ==
  pc = "done" =>
    /\ raised # "Table.read"
    /\ (halted = "build" /\ OnlyUnreadable(filter_list[i])) =>
         err = "ERROR: No measurement table found for filter"

\* the place of a descriptor in order_types
TypeRank(d) == CHOOSE n \in 1..Len(order_types) : order_types[n] = d

\* the (filename, descriptor) pairs of the recognized files of filter f
PairsOf(f) ==
  {<<recognized[k].fn, recognized[k].desc>> :
     k \in {n \in 1..Len(recognized) : recognized[n].flt = f}}

\* u lists the recognized files of filter f once each, by descriptor in the
\* order of order_types and by filename within a descriptor, but for the
\* canonical table, which comes first
TypeOrdered(u, f) ==
  /\ Range(u) = PairsOf(f) /\ Len(u) = Cardinality(PairsOf(f))
  /\ \A a, b \in 1..Len(u) :
       a < b =>
         /\ TypeRank(u[a][2]) <= TypeRank(u[b][2])
         /\ u[a][2] = u[b][2] =>
              \/ u[a][2] = MeasTable /\ a = 1 /\ u[a][1] = ChosenGet(f)
              \/ /\ StrLess(u[a][1], u[b][1])
                 /\ ~(u[b][2] = MeasTable /\ u[b][1] = ChosenGet(f))
  /\ f \in DOMAIN chosen_tbl_by_flt => u[1] = <<chosen_tbl_by_flt[f], MeasTable>>

\* C9: the list printed for a filter and the list uploaded for it are the
\* same sequence of (filename, descriptor) pairs, holding every recognized
\* file of the filter once, in the order of order_types, filenames
\* ascending within a descriptor, with the canonical table first.
C9_UploadOrderIsDisplayOrder ==
  /\ pc = "completeness" =>
       /\ DOMAIN printed = RecFilters
       /\ \A f \in DOMAIN printed : TypeOrdered(printed[f], f)
  /\ pc \in {"submit", "upload", "done"} =>
       \A f \in DOMAIN uploads :
         uploads[f] = printed[f] /\ TypeOrdered(uploads[f], f)

C9_Witness ==
  /\ pc = "upload"
  /\ \E f \in DOMAIN uploads :
       /\ Len(uploads[f]) > 2
       /\ uploads[f][2][2] = MeasTable
       /\ StrLess(uploads[f][2][1], uploads[f][1][1])
       /\ uploads[f][3][2] # MeasTable

\* the calls of the submit phase
IsSubmitCall(c) == c.call \in {"insert_tseries", "insert_file"}

SubmitCalls == {k \in 1..Len(sent) : IsSubmitCall(sent[k])}

\* a step of the submit phase keeps the entries and the calls made, and
\* makes at most one more call
SubmitStepAppends ==
  pc \in {"submit", "upload"} =>
    /\ entries_by_flt' = entries_by_flt
    /\ \/ sent' = sent
       \/ /\ Len(sent') = Len(sent) + 1
          /\ SubSeq(sent', 1, Len(sent)) = sent
          /\ IsSubmitCall(sent'[Len(sent')])

\* every submit call was made with an entry for every filter, was made
\* once, and if it failed is the last call of a run ended by its error
FailedCallIsLast ==
  \A k \in SubmitCalls :
    /\ DOMAIN entries_by_flt = Range(filter_list)
    /\ \A n \in SubmitCalls : n # k => sent[n] # sent[k]
    /\ sent[k].status >= 400 =>
         /\ k = Len(sent)
         /\ pc = "done" /\ exit_code = 1
         /\ err = IF sent[k].call = "insert_tseries"
                    THEN "ERROR: Time Series Add failed"
                    ELSE "ERROR: File upload failed"

\* C11: a summary post or file upload that returns a failure status is the
\* last call of the run, which has ended fatally with the error of that
\* call; no call is made twice; summaries and files are sent only when
\* every filter has its entry; and a step of the submit phase only appends
\* one call to the calls made, leaving the entries built as they are.
C11_FailFastSubmit == []FailedCallIsLast /\ [][SubmitStepAppends]_vars

C11_Witness ==
  /\ pc = "done" /\ Len(filter_list) = 2
  /\ \E k \in SubmitCalls :
       /\ sent[k].call = "insert_file" /\ sent[k].status >= 400
       /\ sent[k].flt = filter_list[1]
       /\ \E n \in 1..(k - 1) :
            sent[n].call = "insert_file" /\ sent[n].status < 400

====
